---- MODULE Spec2Model ----
(***************************************************************************)
(* ThaiLingo: the /api/analyze request handler, in all the revisions the   *)
(* repository holds.  One request is handled by one invocation of          *)
(* `handler`; every `await` of an outbound call is a point where the       *)
(* handler is suspended, so each action below is the handler's code from   *)
(* one suspension point to the next (or to the response).                  *)
(*                                                                         *)
(* Strings are sequences of tokens.  Request texts are sequences of Thai   *)
(* code units (written with ASCII names); generative replies are sequences *)
(* of the lexical tokens the sanitizer and JSON.parse distinguish.         *)
(* Whitespace is left out of the reply tokens: JSON.parse ignores it and   *)
(* the one revision that trims hands the trimmed text to JSON.parse only.  *)
(***************************************************************************)
EXTENDS Integers, Sequences, FiniteSets, TLC

VARIABLES rev, env, universe, h

vars == <<rev, env, universe, h>>

---------------------------------------------------------------------------
(* Bounds of the exploration *)

MaxTextLen == 2
MaxRawLen == 5
ProseRunLen == 120

---------------------------------------------------------------------------
(* The revisions of the handler *)

Revisions ==
    {"img_v1", "gen_v2", "gas_v1", "gas_v2", "gas_v3", "nllb_v1", "nllb_v2"}

\* The credential is checked at the top of the try block, before the body.
KeyFirst(v) == v \in {"img_v1", "gen_v2", "gas_v3"}

\* The revision reads `text` from the body.
AcceptsText(v) == v # "img_v1"

\* The fast-path provider of a revision ("none" when it has none).
FastProvider(v) ==
    CASE v \in {"gas_v1", "gas_v2", "gas_v3"} -> "GAS"
      [] v \in {"nllb_v1", "nllb_v2"} -> "NLLB"
      [] OTHER -> "none"

\* The relay is told a direction taken from sourceLang.
Directional(v) == v \in {"gas_v2", "gas_v3"}

\* The generative call is wrapped in generateWithRetry.
HasGenRetry(v) == v = "gas_v3"

\* The inference provider is called in the bounded retry loop.
HasNllbLoop(v) == v = "nllb_v2"

\* The sanitizer slices from the first "{" to the last "}".
Slices(v) == v # "img_v1"

\* The mode value that selects the plain (sign) prompt.
PlainMode(v) == IF v = "img_v1" THEN "sign" ELSE "general"

NllbAttempts == 3
DefaultWait == 5
ExcerptLimit == 200

---------------------------------------------------------------------------
(* Values *)

Undefined == "undefined"
NoText == <<"undefined">>

Requests == {"r1", "r2"}

Min(a, b) == IF a < b THEN a ELSE b
Max(a, b) == IF a > b THEN a ELSE b

SeqsUpTo(S, n) == UNION {[1..k -> S] : k \in 0..n}

\* Thai code units: PO = U+0E1B, UU = U+0E39, KO = U+0E01, U = U+0E38,
\* MT = U+0E49 (mai tho), NGO = U+0E07, HO = U+0E2B, O = U+0E2D, YO = U+0E22,
\* HK = U+0E31 (mai han-akat), LO = U+0E25, TK = U+0E47 (mai taikhu),
\* BO = U+0E1A, SO = U+0E2A, E = U+0E40, TO = U+0E15, RO = U+0E23,
\* TH = U+0E4C (thanthakhat).
TextAlphabet == {"PO", "UU"}

Texts == SeqsUpTo(TextAlphabet, MaxTextLen)

\* JavaScript truthiness of a string-or-undefined value.
Truthy(s) == s # Undefined /\ s # ""

\* JavaScript truthiness of a text: undefined and "" are falsy.
TruthyText(t) == t # NoText /\ t # <<>>

\* String.prototype.includes
Includes(t, k) ==
    \E i \in 1..(Len(t) - Len(k) + 1) : SubSeq(t, i, i + Len(k) - 1) = k

shellfishKeywords ==
    { <<"KO", "U", "MT", "NGO">>,
      <<"PO", "UU">>,
      <<"HO", "O", "YO">>,
      <<"KO", "HK", "MT", "NGO">>,
      <<"LO", "TK", "O", "BO", "SO", "E", "TO", "O", "RO", "TH">> }

\* shellfishKeywords.some(k => text.includes(k))
HasShellfish(t) == \E k \in shellfishKeywords : Includes(t, k)

---------------------------------------------------------------------------
(* Generative replies: token strings, the sanitizer and JSON.parse *)

\* F = the fence marker (three backticks), FJ = the fence marker followed by
\* the tag json, m = one complete member such as "items":[], p = a run of
\* prose of ProseRunLen characters.
RawAlphabet == {"F", "FJ", "{", "}", "m", "p"}

RawTexts == SeqsUpTo(RawAlphabet, MaxRawLen)

\* The replies drawn when the whole handler is explored.
SampleReplies ==
    { <<"{", "m", "}">>,
      <<"{", "}">>,
      <<"p", "FJ", "{", "m", "}", "F", "p">>,
      <<"p", "p">>,
      <<"}", "p", "{">> }

\* Length in UTF-16 code units.
Width(tok) ==
    CASE tok = "F" -> 3
      [] tok = "FJ" -> 7
      [] tok = "m" -> 10
      [] tok = "p" -> ProseRunLen
      [] OTHER -> 1

RECURSIVE CodeUnits(_)
CodeUnits(t) == IF t = <<>> THEN 0 ELSE Width(Head(t)) + CodeUnits(Tail(t))

IsFenceJson(tok) == tok = "FJ"
IsFence(tok) == tok = "F"
NotFenceJson(tok) == ~IsFenceJson(tok)
NotFence(tok) == ~IsFence(tok)

\* responseText.includes("```")
IncludesFence(t) == \E i \in 1..Len(t) : t[i] \in {"F", "FJ"}

\* .replace(/```json/g, '').replace(/```/g, '')
StripFences(t) == SelectSeq(SelectSeq(t, NotFenceJson), NotFence)

\* indexOf / lastIndexOf, 0-based, -1 when absent
IndexOf(t, c) ==
    IF \E i \in 1..Len(t) : t[i] = c
    THEN (CHOOSE i \in 1..Len(t) : t[i] = c /\ \A j \in 1..(i - 1) : t[j] # c) - 1
    ELSE -1

LastIndexOf(t, c) ==
    IF \E i \in 1..Len(t) : t[i] = c
    THEN (CHOOSE i \in 1..Len(t) : t[i] = c /\ \A j \in (i + 1)..Len(t) : t[j] # c) - 1
    ELSE -1

\* String.prototype.substring(a, b): arguments clamped to [0, length] and
\* swapped when a > b.
Substring(t, a, b) ==
    LET ca == Max(0, Min(a, Len(t)))
        cb == Max(0, Min(b, Len(t)))
    IN  SubSeq(t, Min(ca, cb) + 1, Max(ca, cb))

\* The slice from the first "{" to the last "}".
SliceBraces(t) ==
    LET jsonStartIndex == IndexOf(t, "{")
        jsonEndIndex == LastIndexOf(t, "}")
    IN  IF jsonStartIndex # -1 /\ jsonEndIndex # -1
        THEN Substring(t, jsonStartIndex, jsonEndIndex + 1)
        ELSE t

\* The text handed to JSON.parse.
Sanitize(v, t) ==
    IF Slices(v)
    THEN SliceBraces(IF IncludesFence(t) THEN StripFences(t) ELSE t)
    ELSE StripFences(t)

\* The JSON texts over the tokens: an object with no member or one member.
JsonTexts == { <<"{", "}">>, <<"{", "m", "}">> }

\* JSON.parse(t) returns (TRUE) or throws (FALSE).
JsonParses(t) == t \in JsonTexts

\* The value JSON.parse returns: the object, written by its members.
JsonParse(t) == SubSeq(t, 2, Len(t) - 1)

---------------------------------------------------------------------------
(* Requests, configuration, responses *)

Methods == {"POST", "OPTIONS", "GET"}

\* req.body, destructured; hasBody = FALSE is a request without a body.
NoBody ==
    [hasBody |-> FALSE, image |-> Undefined, text |-> NoText,
     mode |-> Undefined, sourceLang |-> Undefined]

Bodies ==
    {NoBody} \cup
    [hasBody : {TRUE}, image : {Undefined, "jpeg"}, text : Texts \cup {NoText},
     mode : {Undefined, "general", "sign"}, sourceLang : {Undefined, "zh", "th"}]

RequestSpace == [method : Methods, body : Bodies]

\* process.env as the revision v reads it
EnvSpace(v) ==
    [GEMINI_API_KEY : {Undefined, "key"},
     GEMINI_MODEL : {Undefined, "custom-model"},
     GAS_API_URL : IF FastProvider(v) = "GAS" THEN {Undefined, "url"} ELSE {Undefined},
     HF_API_KEY : IF FastProvider(v) = "NLLB" THEN {Undefined, " ", "hf"} ELSE {Undefined}]

\* What a fast-path provider answers to one fetch.  net = "error": fetch
\* throws.  jsonOk = FALSE: response.json() throws.  shape names the payload:
\* the relay's {status: 'success', translated} or {status: 'error', message},
\* the inference service's [{translation_text}], {error} or anything else,
\* and its {estimated_time} with a 503 (0: the field is missing).
NoAnswer ==
    [net |-> "none", status |-> 0, jsonOk |-> FALSE, shape |-> "none",
     translated |-> NoText, message |-> "", estimated_time |-> 0]

Translated == <<"TR">>

Answer(st, shp, tr, msg) ==
    [net |-> "ok", status |-> st, jsonOk |-> TRUE, shape |-> shp,
     translated |-> tr, message |-> msg, estimated_time |-> 0]

NetworkError == [NoAnswer EXCEPT !.net = "error"]

GasAnswers ==
    { NetworkError,
      [Answer(500, "none", NoText, "") EXCEPT !.jsonOk = FALSE],
      [Answer(200, "none", NoText, "") EXCEPT !.jsonOk = FALSE],
      Answer(200, "success", Translated, ""),
      Answer(200, "success", NoText, ""),
      Answer(200, "error", NoText, "quota"),
      Answer(200, "error", NoText, "") }

NllbAnswers ==
    { NetworkError,
      [Answer(503, "loading", NoText, "") EXCEPT !.estimated_time = 20],
      Answer(503, "loading", NoText, ""),
      [Answer(503, "none", NoText, "") EXCEPT !.jsonOk = FALSE],
      [Answer(429, "none", NoText, "") EXCEPT !.jsonOk = FALSE],
      [Answer(200, "none", NoText, "") EXCEPT !.jsonOk = FALSE],
      Answer(200, "array", Translated, ""),
      Answer(200, "array", <<>>, ""),
      Answer(200, "array", NoText, ""),
      Answer(200, "errorobj", NoText, "model error"),
      Answer(200, "other", NoText, "") }

FastAnswers(provider) == IF provider = "GAS" THEN GasAnswers ELSE NllbAnswers

\* The answers drawn when two requests are explored together: a success, a
\* reported error, a model-loading 503 and a 429 without a JSON body
PairAnswers ==
    { Answer(200, "success", Translated, ""),
      Answer(200, "error", NoText, "quota"),
      Answer(200, "array", Translated, ""),
      [Answer(503, "loading", NoText, "") EXCEPT !.estimated_time = 20],
      [Answer(429, "none", NoText, "") EXCEPT !.jsonOk = FALSE] }

PairReplies == { <<"{", "m", "}">>, <<"p", "p">> }

\* response.ok
Ok(a) == a.status >= 200 /\ a.status <= 299

NoResponse ==
    [status |-> 0, kind |-> "none", error |-> "", details |-> "",
     raw |-> <<>>, json |-> <<>>, items |-> <<>>]

\* res.status(200).end()
EndResponse(st) == [NoResponse EXCEPT !.status = st, !.kind = "end"]

\* res.status(st).json({ error, details, raw })
ErrorResponse(st, err, det, rawText) ==
    [NoResponse EXCEPT !.status = st, !.kind = "error", !.error = err,
                       !.details = det, !.raw = rawText]

\* res.status(200).json({ items: [item] })
ItemsResponse(item) ==
    [NoResponse EXCEPT !.status = 200, !.kind = "items", !.items = <<item>>]

\* res.status(200).json(parsedData)
JsonResponse(value) ==
    [NoResponse EXCEPT !.status = 200, !.kind = "json", !.json = value]

ConfigurationError == "Configuration Error"
ParseError == "AI Response Error"
ProcessingFailed == "Processing Failed"

\* The record of one invocation of handler.
Fresh(q) ==
    [req |-> q, pc |-> "received", res |-> NoResponse, sent |-> 0,
     fastCalls |-> <<>>, genCalls |-> <<>>, i |-> 0, wait |-> 0,
     fastErr |-> "", fastGot |-> NoAnswer, fastGots |-> <<>>,
     genErrs |-> <<>>, genGot |-> FALSE, genRaw |-> <<>>, genText |-> <<>>]

Idle == [Fresh([method |-> "GET", body |-> NoBody]) EXCEPT !.pc = "idle"]

RespondWithoutReturn(hr, response) ==
    [hr EXCEPT !.res = response, !.sent = @ + 1]

\* The handler sends a response and returns.
Respond(hr, response) ==
    [hr EXCEPT !.pc = "done", !.res = response, !.sent = @ + 1]

---------------------------------------------------------------------------
(* The generative path: from branch B to the call of the provider *)

DefaultModel(v) == IF v = "img_v1" THEN "gemini-1.5-flash" ELSE "gemini-2.0-flash-lite"

PRIMARY_MODEL ==
    IF Truthy(env.GEMINI_MODEL) THEN env.GEMINI_MODEL ELSE DefaultModel(rev)

FALLBACK_MODEL == "gemini-2.5-flash-lite-preview-09-2025"

ImageBranchFirst(b) == AcceptsText(rev) /\ TruthyText(b.text) /\ ~Truthy(b.image)

\* The branch of the prompt construction: `if (text)` comes first wherever
\* the revision reads text.
TextBranch(b) == AcceptsText(rev) /\ TruthyText(b.text)

\* The prompt and the parts sent with it.
ContentParts(b) ==
    IF TextBranch(b)
    THEN [prompt |-> IF Directional(rev) /\ b.sourceLang = "zh"
                     THEN "text zh->th" ELSE "text th->zh",
          text |-> b.text, image |-> Undefined]
    ELSE [prompt |-> IF b.mode = PlainMode(rev) THEN "image plain" ELSE "image menu",
          text |-> NoText, image |-> b.image]

\* generationConfig.responseMimeType of the model
ResponseMimeType(v) == IF v = "img_v1" THEN Undefined ELSE "application/json"

CallGenerativeShared(hr, modelName, retrying) ==
    [hr EXCEPT !.pc = "gen_call",
               !.genCalls = Append(@, [model |-> modelName, retrying |-> retrying,
                                       responseMimeType |-> ResponseMimeType(rev),
                                       parts |-> ContentParts(h["r1"].req.body)])]

\* model.generateContent(...) is called and awaited.
CallGenerative(hr, modelName, retrying) ==
    [hr EXCEPT !.pc = "gen_call",
               !.genCalls = Append(@, [model |-> modelName, retrying |-> retrying,
                                       responseMimeType |-> ResponseMimeType(rev),
                                       parts |-> ContentParts(hr.req.body)])]

EnterGenerativeUnchecked(hr) == CallGenerative(hr, PRIMARY_MODEL, FALSE)

\* Branch B up to the first call: the credential check of the revisions that
\* check it here, then the call with the primary model.
EnterGenerative(hr) ==
    IF ~KeyFirst(rev) /\ ~Truthy(env.GEMINI_API_KEY)
    THEN Respond(hr, ErrorResponse(500, ConfigurationError, "API Key missing.", <<>>))
    ELSE CallGenerative(hr, PRIMARY_MODEL, FALSE)

---------------------------------------------------------------------------
(* The fast path *)

\* What a helper returns (ok) or throws (~ok, with the error's message).
Returned(value) == [ok |-> TRUE, value |-> value, message |-> ""]
Thrown(msg) == [ok |-> FALSE, value |-> NoText, message |-> msg]

\* translateWithGAS, after the fetch has been answered with a
translateWithGAS(a) ==
    IF a.net = "error" THEN Thrown("fetch failed")
    ELSE IF ~Ok(a) THEN Thrown("GAS API Error")
    ELSE IF ~a.jsonOk THEN Thrown("invalid json")
    ELSE IF a.shape = "success" THEN Returned(a.translated)
    ELSE Thrown(IF a.message # "" THEN a.message ELSE "Unknown GAS Error")

\* translateWithNLLB without the retry loop, after the fetch has been answered
translateWithNLLB1(a) ==
    IF a.net = "error" THEN Thrown("fetch failed")
    ELSE IF ~Ok(a) THEN Thrown("HF API Error")
    ELSE IF ~a.jsonOk THEN Thrown("invalid json")
    ELSE IF a.shape = "array" /\ TruthyText(a.translated) THEN Returned(a.translated)
    ELSE IF a.shape = "errorobj" THEN Thrown(a.message)
    ELSE Thrown("Unexpected HF response format")

\* One turn of the loop of translateWithNLLB for an answer other than a 503
\* whose body is read
translateWithNLLB3(a) ==
    IF a.net = "error" THEN Thrown("fetch failed")
    ELSE IF a.status = 503 THEN Thrown("invalid json")
    ELSE IF ~Ok(a) THEN Thrown("HF API Error")
    ELSE IF ~a.jsonOk THEN Thrown("invalid json")
    ELSE IF a.shape = "array" /\ TruthyText(a.translated) THEN Returned(a.translated)
    ELSE Thrown("Unexpected HF response format")

\* The 503 "model loading" answer whose body the loop reads before it waits
IsLoading(a) == a.net = "ok" /\ a.status = 503 /\ a.jsonOk

\* errorData.estimated_time || 5.0
WaitTime(a) == IF a.estimated_time # 0 THEN a.estimated_time ELSE DefaultWait

\* The credential the inference provider is called with (and tested for)
hfApiKey ==
    IF rev = "nllb_v2"
    THEN (IF Truthy(env.HF_API_KEY) /\ env.HF_API_KEY # " " THEN env.HF_API_KEY
          ELSE IF Truthy(env.HF_API_KEY) THEN "" ELSE Undefined)
    ELSE env.HF_API_KEY

\* `if (gasApiUrl)` / `if (hfApiKey)`
FastConfigured ==
    CASE FastProvider(rev) = "GAS" -> Truthy(env.GAS_API_URL)
      [] FastProvider(rev) = "NLLB" -> Truthy(hfApiKey)
      [] OTHER -> FALSE

\* The body of the fetch the fast path sends
FastPayload(b) ==
    IF FastProvider(rev) = "GAS"
    THEN [provider |-> "GAS", text |-> b.text,
          source |-> IF ~Directional(rev) THEN Undefined
                     ELSE IF b.sourceLang = "zh" THEN "zh-TW" ELSE "th",
          target |-> IF ~Directional(rev) THEN Undefined
                     ELSE IF b.sourceLang = "zh" THEN "th" ELSE "zh-TW"]
    ELSE [provider |-> "NLLB", text |-> b.text,
          source |-> "tha_Thai", target |-> "zho_Hant"]

CallFastNotAwaited(hr) ==
    [CallGenerative(hr, PRIMARY_MODEL, FALSE) EXCEPT
        !.fastCalls = Append(@, FastPayload(hr.req.body))]

\* fetch(...) is called and awaited
CallFast(hr) ==
    [hr EXCEPT !.pc = "fast_call", !.fastCalls = Append(@, FastPayload(hr.req.body))]

GasCategory == "Google Translate (GAS)"
NllbCategory == "Meta NLLB-200"

\* item.containsShellfish on the relay path
GasShellfish(b) ==
    IF Directional(rev) /\ b.sourceLang = "zh" THEN FALSE ELSE HasShellfish(b.text)

\* item.containsShellfish on the inference path
NllbShellfish(b) == FALSE

FastItemThaiFirst(b, translation) ==
    [id |-> "Date.now()", roman |-> "",
     category |-> IF FastProvider(rev) = "GAS" THEN GasCategory ELSE NllbCategory,
     containsShellfish |-> IF FastProvider(rev) = "GAS" THEN GasShellfish(b) ELSE FALSE,
     thai |-> b.text, zh |-> translation]

\* The item built from the translation
FastItem(b, translation) ==
    IF FastProvider(rev) = "GAS"
    THEN [id |-> "Date.now()", roman |-> "", category |-> GasCategory,
          containsShellfish |-> GasShellfish(b),
          thai |-> IF Directional(rev) /\ b.sourceLang = "zh" THEN translation ELSE b.text,
          zh |-> IF Directional(rev) /\ b.sourceLang = "zh" THEN b.text ELSE translation]
    ELSE [id |-> "Date.now()", roman |-> "", category |-> NllbCategory,
          containsShellfish |-> NllbShellfish(b),
          thai |-> b.text, zh |-> translation]

FastFailedSurfaced(hr, msg) ==
    Respond([hr EXCEPT !.fastErr = msg], ErrorResponse(500, ProcessingFailed, msg, <<>>))

\* The catch of the fast path: the warning is logged, branch B follows
FastFailed(hr, msg) == EnterGenerative([hr EXCEPT !.fastErr = msg])

\* The handler after the helper has returned or thrown
AfterFast(hr, result) ==
    IF result.ok
    THEN Respond(hr, ItemsResponse(FastItem(hr.req.body, result.value)))
    ELSE FastFailed(hr, result.message)

---------------------------------------------------------------------------
(* The generative provider's outcomes *)

\* The errors a failed generateContent throws: the HTTP status the provider
\* answered with, and error.message, which names the status and carries the
\* provider's own text.
GenError(st, msg) == [status |-> st, message |-> msg]

GenErrors ==
    { GenError(429, "[429 Too Many Requests] Resource has been exhausted"),
      GenError(503, "[503 Service Unavailable] The model is overloaded"),
      GenError(400, "[400 Bad Request] Invalid argument"),
      GenError(400, "[400 Bad Request] The input token count (1503) exceeds the maximum") }

\* The runs of digits in a message, digit by digit
DigitRuns(msg) ==
    CASE msg = "[429 Too Many Requests] Resource has been exhausted" ->
            { <<"4", "2", "9">> }
      [] msg = "[503 Service Unavailable] The model is overloaded" ->
            { <<"5", "0", "3">> }
      [] msg = "[400 Bad Request] Invalid argument" ->
            { <<"4", "0", "0">> }
      [] msg = "[400 Bad Request] The input token count (1503) exceeds the maximum" ->
            { <<"4", "0", "0">>, <<"1", "5", "0", "3">> }
      [] OTHER -> {}

\* error.message.includes(digits)
MessageIncludes(msg, digits) == \E run \in DigitRuns(msg) : Includes(run, digits)

OverloadedOnly429(msg) == MessageIncludes(msg, <<"4", "2", "9">>)

\* error.message.includes('429') || error.message.includes('503')
Overloaded(msg) ==
    MessageIncludes(msg, <<"4", "2", "9">>) \/ MessageIncludes(msg, <<"5", "0", "3">>)

\* The raw texts the provider may answer with
Replies ==
    CASE universe = "all" -> RawTexts
      [] universe = "pair" -> PairReplies
      [] OTHER -> SampleReplies

\* The answers a fast-path provider may give
FastReplies ==
    IF universe = "pair" THEN FastAnswers(FastProvider(rev)) \cap PairAnswers
    ELSE FastAnswers(FastProvider(rev))

\* The retrying argument of the running generateWithRetry
Retrying(hr) == hr.genCalls[Len(hr.genCalls)].retrying

\* The catch of generateWithRetry switches to the fallback model
SwitchesModel(hr, msg) == HasGenRetry(rev) /\ ~Retrying(hr) /\ Overloaded(msg)

ParseDetails(v) ==
    IF v = "img_v1" THEN "Failed to parse AI response as JSON" ELSE "Failed to parse JSON"

\* The raw field of the parse-error response
RawField(v, raw, text) == IF v = "img_v1" THEN raw ELSE text

ParsedAndValidated(hr, raw) ==
    LET responseText == Sanitize(rev, raw)
    IN  IF JsonParses(responseText) /\ JsonParse(responseText) # <<>>
        THEN Respond(hr, JsonResponse(JsonParse(responseText)))
        ELSE Respond(hr, ErrorResponse(500, ParseError, ParseDetails(rev),
                                       RawField(rev, raw, responseText)))

\* The handler from the provider's text to the response; genText is the
\* text handed to JSON.parse
Parsed(hr, raw) ==
    LET responseText == Sanitize(rev, raw)
        hp == [hr EXCEPT !.genText = responseText]
    IN  IF JsonParses(responseText)
        THEN Respond(hp, JsonResponse(JsonParse(responseText)))
        ELSE Respond(hp, ErrorResponse(500, ParseError, ParseDetails(rev),
                                       RawField(rev, raw, responseText)))

Uncaught(hr, message) == [hr EXCEPT !.pc = "threw"]

\* The catch of the handler's try block
OuterCatch(hr, message) ==
    Respond(hr, ErrorResponse(500, ProcessingFailed, message, <<>>))

---------------------------------------------------------------------------
(* The handler, from the request to its first outbound call or response *)

KeyNeverFirst(hr) == FALSE

\* The credential check at the top of the try block answers the request
KeyMissingFirst(hr) == KeyFirst(rev) /\ ~Truthy(env.GEMINI_API_KEY)

NoContentNever(b) == FALSE

\* `if (!image && !text)`, or `if (!image)` where text is not read
NoContent(b) ==
    IF AcceptsText(rev) THEN ~Truthy(b.image) /\ ~TruthyText(b.text)
    ELSE ~Truthy(b.image)

NoContentMessage(v) ==
    IF v = "img_v1" THEN "No image data provided" ELSE "No content provided"

TakesFastPathUnguarded(b) == FastProvider(rev) # "none"

\* Branch A is taken: text is present and the provider is configured
TakesFastPath(b) == AcceptsText(rev) /\ TruthyText(b.text) /\ FastConfigured

GateOpen(q) == FALSE

\* The method gate answers the request
GateAnswers(q) == q.method # "POST"

\* The response of the method gate
GateResponse(q) ==
    IF q.method = "OPTIONS" THEN EndResponse(200)
    ELSE ErrorResponse(405, "Method Not Allowed", "", <<>>)

\* handler, up to its first await or its response
Handle(hr) ==
    LET q == hr.req
        b == q.body
    IN  IF GateAnswers(q) THEN Respond(hr, GateResponse(q))
        ELSE IF KeyMissingFirst(hr)
        THEN Respond(hr, ErrorResponse(500, ConfigurationError, "API Key missing.", <<>>))
        ELSE IF ~b.hasBody
        THEN OuterCatch(hr, "TypeError")
        ELSE IF NoContent(b)
        THEN Respond(hr, ErrorResponse(400, NoContentMessage(rev), "", <<>>))
        ELSE IF TakesFastPath(b) THEN CallFast(hr)
        ELSE EnterGenerative(hr)

---------------------------------------------------------------------------
(* Actions *)

\* The platform invokes handler(req, res)
Receive(r) ==
    /\ h[r].pc = "received"
    /\ h' = [h EXCEPT ![r] = Handle(h[r])]
    /\ UNCHANGED <<rev, env, universe>>

\* The fast-path provider answers the fetch; the handler runs on to its
\* response, to the wait of the retry loop, or to the generative call
FastReply(r) ==
    /\ h[r].pc = "fast_call"
    /\ \E a \in FastReplies :
         LET hr == [h[r] EXCEPT !.fastGot = a, !.fastGots = Append(@, a)]
         IN  h' = [h EXCEPT ![r] =
                     IF FastProvider(rev) = "GAS" THEN AfterFast(hr, translateWithGAS(a))
                     ELSE IF ~HasNllbLoop(rev) THEN AfterFast(hr, translateWithNLLB1(a))
                     ELSE IF IsLoading(a)
                          THEN [hr EXCEPT !.pc = "fast_sleep", !.wait = WaitTime(a)]
                     ELSE AfterFast(hr, translateWithNLLB3(a))]
    /\ UNCHANGED <<rev, env, universe>>

LoopContinuesFour(hr) == hr.i < NllbAttempts + 1

\* The test of the retry loop: `i < 3`
LoopContinues(hr) == hr.i < NllbAttempts

FastWakeUnresolved(r) == FALSE

\* The timer of the retry loop fires: `continue`, i++, the loop test
FastWake(r) ==
    /\ h[r].pc = "fast_sleep"
    /\ LET hr == [h[r] EXCEPT !.i = @ + 1, !.wait = 0]
       IN  h' = [h EXCEPT ![r] =
                   IF LoopContinues(hr) THEN CallFast(hr)
                   ELSE FastFailed(hr, "NLLB Model unavailable after retries")]
    /\ UNCHANGED <<rev, env, universe>>

\* generateContent (or reading its response) throws
GenFails(r) ==
    /\ h[r].pc = "gen_call"
    /\ \E error \in GenErrors :
         LET hr == [h[r] EXCEPT !.genErrs = Append(@, error)]
         IN  h' = [h EXCEPT ![r] =
                     IF SwitchesModel(hr, error.message)
                     THEN CallGenerative(hr, FALLBACK_MODEL, TRUE)
                     ELSE OuterCatch(hr, error.message)]
    /\ UNCHANGED <<rev, env, universe>>

\* generateContent returns text: sanitize, parse, respond
GenAnswers(r) ==
    /\ h[r].pc = "gen_call"
    /\ \E raw \in Replies :
         h' = [h EXCEPT ![r] = Parsed([h[r] EXCEPT !.genGot = TRUE, !.genRaw = raw], raw)]
    /\ UNCHANGED <<rev, env, universe>>

---------------------------------------------------------------------------
(* Specifications *)

\* One request, any revision, configuration and request
Init ==
    /\ rev \in Revisions
    /\ env \in EnvSpace(rev)
    /\ universe = "samples"
    /\ \E q \in RequestSpace : h = [r \in Requests |-> IF r = "r1" THEN Fresh(q) ELSE Idle]

Next ==
    \E r \in Requests :
        \/ Receive(r)
        \/ FastReply(r)
        \/ FastWake(r)
        \/ GenFails(r)
        \/ GenAnswers(r)

Spec == Init /\ [][Next]_vars

\* The handler is invoked, every outbound call is eventually answered (it
\* returns or fails) and every timer eventually fires
Fairness ==
    \A r \in Requests :
        /\ WF_vars(Receive(r))
        /\ WF_vars(FastReply(r))
        /\ WF_vars(FastWake(r))
        /\ WF_vars(GenFails(r) \/ GenAnswers(r))

\* The texts of the requests whose termination is explored: no text, the
\* empty text and one text with a keyword; the handler's control flow reads
\* nothing else of a text
LiveTexts == {NoText, <<>>, <<"PO", "UU">>}

InitLive ==
    /\ rev \in Revisions
    /\ env \in EnvSpace(rev)
    /\ universe = "samples"
    /\ \E q \in RequestSpace :
         /\ q.body.text \in LiveTexts
         /\ h = [r \in Requests |-> IF r = "r1" THEN Fresh(q) ELSE Idle]

SpecLive == InitLive /\ [][Next]_vars /\ Fairness

\* Two requests handled concurrently: the platform runs one invocation of
\* handler for each, and their steps interleave at the awaits
ConcRequests ==
    { [method |-> "POST",
       body |-> [hasBody |-> TRUE, image |-> Undefined, text |-> <<"PO", "UU">>,
                 mode |-> Undefined, sourceLang |-> Undefined]],
      [method |-> "POST",
       body |-> [hasBody |-> TRUE, image |-> Undefined, text |-> <<"PO">>,
                 mode |-> Undefined, sourceLang |-> "zh"]],
      [method |-> "POST",
       body |-> [hasBody |-> TRUE, image |-> "jpeg", text |-> NoText,
                 mode |-> "general", sourceLang |-> Undefined]] }

InitConc ==
    /\ rev \in Revisions
    /\ env \in EnvSpace(rev)
    /\ env.GEMINI_API_KEY = "key" /\ env.HF_API_KEY # " "
    /\ universe = "pair"
    /\ h \in [Requests -> {Fresh(q) : q \in ConcRequests}]

SpecConc == InitConc /\ [][Next]_vars

\* One request that goes straight to the generative provider, which may
\* answer with any text of RawTexts
GenRequests ==
    { [method |-> "POST",
       body |-> [hasBody |-> TRUE, image |-> "jpeg", text |-> NoText,
                 mode |-> Undefined, sourceLang |-> Undefined]],
      [method |-> "POST",
       body |-> [hasBody |-> TRUE, image |-> "jpeg", text |-> NoText,
                 mode |-> "general", sourceLang |-> Undefined]] }

InitGen ==
    /\ rev \in Revisions
    /\ env = [GEMINI_API_KEY |-> "key", GEMINI_MODEL |-> Undefined,
              GAS_API_URL |-> Undefined, HF_API_KEY |-> Undefined]
    /\ universe = "all"
    /\ \E q \in GenRequests : h = [r \in Requests |-> IF r = "r1" THEN Fresh(q) ELSE Idle]

NextGen ==
    \E r \in Requests :
        \/ Receive(r)
        \/ GenFails(r)
        \/ GenAnswers(r)

SpecGen == InitGen /\ [][NextGen]_vars

---------------------------------------------------------------------------
(* Vocabulary of the properties *)

Done(r) == h[r].pc = "done"
IsPost(r) == h[r].req.method = "POST"
NoOutboundCall(r) == h[r].fastCalls = <<>> /\ h[r].genCalls = <<>>
KeyAbsent == env.GEMINI_API_KEY = Undefined

\* The body is there and carries neither a truthy image nor a truthy text
LacksContent(r) ==
    /\ h[r].req.body.hasBody
    /\ h[r].req.body.image \in {Undefined, ""}
    /\ h[r].req.body.text \in {NoText, <<>>}

IsConfigurationError(r) ==
    h[r].res.status = 500 /\ h[r].res.kind = "error" /\ h[r].res.error = ConfigurationError

---------------------------------------------------------------------------
(* C1 *)

---------------------------------------------------------------------------
(* C2 *)

\* C2: a request whose method is not POST never invokes a provider; OPTIONS
\* is answered 200 without a body and any other method 405, whatever the
\* body and the configuration.
C2_MethodGate ==
    \A r \in Requests :
        ~IsPost(r) =>
            /\ NoOutboundCall(r)
            /\ h[r].pc \in {"idle", "received", "done"}
            /\ Done(r) =>
                 IF h[r].req.method = "OPTIONS"
                 THEN h[r].res.status = 200 /\ h[r].res.kind = "end"
                 ELSE h[r].res.status = 405 /\ h[r].res.kind = "error"

\* A GET request with a text, a configured fast path and a credential,
\* answered 405
C2_Witness ==
    \E r \in Requests :
        /\ h[r].req.method = "GET" /\ Done(r)
        /\ h[r].req.body.hasBody /\ h[r].req.body.text # NoText /\ h[r].req.body.text # <<>>
        /\ FastConfigured /\ ~KeyAbsent
        /\ h[r].res.status = 405

---------------------------------------------------------------------------
(* C3 *)

HasText(r) ==
    h[r].req.body.hasBody /\ h[r].req.body.text # NoText /\ h[r].req.body.text # <<>>

FastCalled(r) == h[r].fastCalls # <<>>

\* The provider's answer carries a translated text: the fetch resolved with
\* a 2xx status and a payload that holds the translation
ProviderSucceeded(a) ==
    /\ a.net = "ok" /\ a.status \in 200..299 /\ a.jsonOk
    /\ a.shape \in {"success", "array"}
    /\ a.translated # NoText /\ a.translated # <<>>

CategoryOf(provider) == IF provider = "GAS" THEN GasCategory ELSE NllbCategory

\* The response is 200 with one item of the fast-path provider
OneFastItem(r) ==
    /\ Done(r)
    /\ h[r].res.status = 200 /\ h[r].res.kind = "items"
    /\ Len(h[r].res.items) = 1
    /\ h[r].res.items[1].category = CategoryOf(h[r].fastCalls[1].provider)

\* C3 as stated: when the fast-path call of a text request succeeds, the
\* response is 200 with one item, thai = the original text, zh = the
\* translated text, category = the fast-path provider, and the generative
\* provider is not invoked.
C3_AsStated ==
    \A r \in Requests :
        (IsPost(r) /\ HasText(r) /\ FastCalled(r) /\ ProviderSucceeded(h[r].fastGot)) =>
            /\ OneFastItem(r)
            /\ h[r].res.items[1].thai = h[r].req.body.text
            /\ h[r].res.items[1].zh = h[r].fastGot.translated
            /\ h[r].genCalls = <<>>

\* C3, amended: as stated, except that when the relay was told to translate
\* from Chinese (sourceLang 'zh' in a revision that takes a direction) the
\* original text is in zh and the translated text in thai.
C3_FastPathSuccess ==
    \A r \in Requests :
        (IsPost(r) /\ HasText(r) /\ FastCalled(r) /\ ProviderSucceeded(h[r].fastGot)) =>
            /\ OneFastItem(r)
            /\ IF h[r].fastCalls[1].source = "zh-TW"
               THEN /\ h[r].res.items[1].zh = h[r].req.body.text
                    /\ h[r].res.items[1].thai = h[r].fastGot.translated
               ELSE /\ h[r].res.items[1].thai = h[r].req.body.text
                    /\ h[r].res.items[1].zh = h[r].fastGot.translated
            /\ h[r].genCalls = <<>>

\* A text translated from Chinese by the relay: the item holds the text in zh
C3_Witness ==
    \E r \in Requests :
        /\ IsPost(r) /\ HasText(r) /\ FastCalled(r) /\ ProviderSucceeded(h[r].fastGot)
        /\ Done(r)
        /\ h[r].fastCalls[1].source = "zh-TW"
        /\ h[r].res.items[1].zh = h[r].req.body.text

---------------------------------------------------------------------------
(* C4 *)

\* The fetch threw or resolved with a non-success status
ProviderFailed(a) ==
    \/ a.net = "error"
    \/ a.net = "ok" /\ a.status \notin 200..299

\* One call with the primary model, and at most one more, with the fallback
\* model, as the retry
OnceOrWithRetry(calls) ==
    /\ Len(calls) \in {1, 2}
    /\ calls[1].model = PRIMARY_MODEL /\ ~calls[1].retrying
    /\ Len(calls) = 2 => calls[2].model = FALLBACK_MODEL /\ calls[2].retrying

\* The response is the provider's output: the JSON value in its text
ReturnsOutput(r) ==
    /\ h[r].genGot
    /\ h[r].res.status = 200 /\ h[r].res.kind = "json"
    /\ h[r].res.json = JsonParse(Sanitize(rev, h[r].genRaw))

\* C4 as stated: when the fast-path call of a text request fails, the
\* generative provider is invoked once (plus at most one fallback-model
\* retry) and its output is the response.
C4_AsStated ==
    \A r \in Requests :
        (IsPost(r) /\ HasText(r) /\ FastCalled(r) /\ ProviderFailed(h[r].fastGot) /\ Done(r)) =>
            /\ OnceOrWithRetry(h[r].genCalls)
            /\ ReturnsOutput(r)

\* C4, amended: when the fast-path call fails and GEMINI_API_KEY is
\* configured, the generative provider is invoked once (plus at most one
\* fallback-model retry); its output is the response when its call succeeds
\* and the sanitized text parses, and the response is a 500 error otherwise.
\* When the credential is absent the generative provider is not invoked and
\* the response is 500 Configuration Error.
C4_FastPathFailure ==
    \A r \in Requests :
        (IsPost(r) /\ HasText(r) /\ FastCalled(r) /\ ProviderFailed(h[r].fastGot) /\ Done(r)) =>
            IF KeyAbsent
            THEN h[r].genCalls = <<>> /\ IsConfigurationError(r)
            ELSE /\ OnceOrWithRetry(h[r].genCalls)
                 /\ IF h[r].genGot /\ JsonParses(Sanitize(rev, h[r].genRaw))
                    THEN ReturnsOutput(r)
                    ELSE /\ h[r].res.status = 500 /\ h[r].res.kind = "error"
                         /\ h[r].res.error \in {ParseError, ProcessingFailed}

\* The fast path failed with a non-success status and the generative
\* provider's fenced output is the response
C4_Witness ==
    \E r \in Requests :
        /\ IsPost(r) /\ HasText(r) /\ FastCalled(r) /\ Done(r)
        /\ h[r].fastGot.net = "ok" /\ h[r].fastGot.status = 500
        /\ Len(h[r].genCalls) = 1
        /\ Len(h[r].genRaw) > 3
        /\ ReturnsOutput(r)

---------------------------------------------------------------------------
(* C5 *)

\* The provider's rate-limit or service-unavailable signal
RateLimited(error) == error.status \in {429, 503}

---------------------------------------------------------------------------
(* C6 *)

\* C6 as stated: while GEMINI_API_KEY is absent every POST request ends
\* with 500 Configuration Error and no provider is invoked.
C6_AsStated ==
    \A r \in Requests :
        (IsPost(r) /\ KeyAbsent) =>
            /\ NoOutboundCall(r)
            /\ Done(r) => IsConfigurationError(r) /\ h[r].sent = 1

\* C6, amended: while GEMINI_API_KEY is absent the generative provider is
\* never invoked and the request is answered once.  A revision that checks
\* the credential first invokes no provider and answers every POST request
\* 500 Configuration Error.  A revision that checks it in the generative
\* branch answers 500 Processing Failed without a body and 400 without
\* content, invokes the fast-path provider of a text request when one is
\* configured and answers 200 with its item when that call succeeds, and
\* answers 500 Configuration Error in every other case.
C6_CredentialRequired ==
    \A r \in Requests :
        (IsPost(r) /\ KeyAbsent) =>
            /\ h[r].genCalls = <<>>
            /\ KeyFirst(rev) => h[r].fastCalls = <<>>
            /\ FastCalled(r) => HasText(r) /\ FastConfigured
            /\ Done(r) =>
                 /\ h[r].sent = 1
                 /\ IF KeyFirst(rev) THEN IsConfigurationError(r)
                    ELSE IF ~h[r].req.body.hasBody
                    THEN h[r].res.status = 500 /\ h[r].res.error = ProcessingFailed
                    ELSE IF LacksContent(r) THEN h[r].res.status = 400
                    ELSE IF FastCalled(r) /\ ProviderSucceeded(h[r].fastGot)
                    THEN OneFastItem(r)
                    ELSE IF h[r].res.kind = "items"
                    THEN FastCalled(r) /\ h[r].fastGot.shape = "success"
                    ELSE IsConfigurationError(r)

\* A text request answered 200 by the fast path although the credential is
\* absent
C6_Witness ==
    \E r \in Requests :
        /\ IsPost(r) /\ KeyAbsent /\ Done(r)
        /\ FastCalled(r) /\ ProviderSucceeded(h[r].fastGot)
        /\ h[r].res.status = 200

---------------------------------------------------------------------------
(* C7 *)

\* The generative provider answered with a text that is not JSON after
\* sanitization
Unparseable(r) == h[r].genGot /\ ~JsonParses(Sanitize(rev, h[r].genRaw))

\* A truncated excerpt: at most ExcerptLimit code units and the ellipsis
IsExcerpt(t) == CodeUnits(t) <= ExcerptLimit + 3

\* C7: a generative text that is not JSON after sanitization is answered
\* 500 with the parse-error kind, never 200, and the response carries a
\* truncated excerpt of the text.
C7_AsStated ==
    \A r \in Requests :
        (Done(r) /\ Unparseable(r)) =>
            /\ h[r].res.status = 500
            /\ h[r].res.kind = "error"
            /\ h[r].res.error = ParseError
            /\ IsExcerpt(h[r].res.raw)

---------------------------------------------------------------------------
(* C8 *)

IsProse(t) == \A i \in 1..Len(t) : t[i] = "p"

\* raw is obj between an opening fence (with or without the tag json) and a
\* closing fence, with prose before the opening fence, after the closing
\* fence, or both
FencedInProse(raw, obj) ==
    \E a \in 0..(Len(raw) - Len(obj) - 2) :
        /\ IsProse(SubSeq(raw, 1, a))
        /\ raw[a + 1] \in {"F", "FJ"}
        /\ SubSeq(raw, a + 2, a + 1 + Len(obj)) = obj
        /\ raw[a + 2 + Len(obj)] = "F"
        /\ IsProse(SubSeq(raw, a + 3 + Len(obj), Len(raw)))
        /\ Len(raw) > Len(obj) + 2

\* C8: a generative reply that is a JSON object in fence markers with
\* leading and/or trailing prose is sanitized to exactly the object, parses,
\* and is answered 200 with the object.
C8_AsStated ==
    \A r \in Requests : \A obj \in JsonTexts :
        (h[r].genGot /\ FencedInProse(h[r].genRaw, obj)) =>
            /\ Sanitize(rev, h[r].genRaw) = obj
            /\ Done(r)
            /\ h[r].res.status = 200 /\ h[r].res.kind = "json"
            /\ h[r].res.json = JsonParse(obj)

---------------------------------------------------------------------------
(* C9 *)

\* The request does not say that its text is Chinese
FromThai(r) == h[r].req.body.sourceLang # "zh"

\* C9: the item of a successful fast-path translation from Thai has
\* containsShellfish true exactly when the text contains a keyword of the
\* allergen set, for the relay and for the inference model alike.
C9_AsStated ==
    \A r \in Requests :
        (IsPost(r) /\ HasText(r) /\ FromThai(r) /\ FastCalled(r)
                   /\ Done(r) /\ h[r].res.kind = "items") =>
            (h[r].res.items[1].containsShellfish <=>
                \E k \in shellfishKeywords : Includes(h[r].req.body.text, k))

---------------------------------------------------------------------------
(* C10 *)

\* The ways a fast-path call fails: the fetch throws, the status is not
\* 2xx, the body is not JSON, the payload reports an error or has no
\* translation
FastFailure(a) ==
    \/ a.net = "error"
    \/ /\ a.net = "ok"
       /\ \/ a.status \notin 200..299
          \/ ~a.jsonOk
          \/ a.shape \in {"error", "errorobj", "other"}
          \/ a.shape = "array" /\ a.translated \in {NoText, <<>>}

\* The handler has left the fast path
PastFastPath(r) == FastCalled(r) /\ h[r].pc \notin {"fast_call", "fast_sleep"}

\* The response comes from the generative branch: the provider's JSON, its
\* parse error, its failure, or the missing credential
FromGenerativeBranch(r) ==
    IF h[r].genCalls = <<>> THEN IsConfigurationError(r)
    ELSE \/ h[r].res.status = 200 /\ h[r].res.kind = "json"
         \/ /\ h[r].res.status = 500 /\ h[r].res.error = ParseError
            /\ h[r].genGot
         \/ /\ h[r].res.status = 500 /\ h[r].res.error = ProcessingFailed
            /\ h[r].genErrs # <<>>
            /\ h[r].res.details = h[r].genErrs[Len(h[r].genErrs)].message

\* C10: however the fast-path call fails, the handler absorbs the failure
\* and goes on to the generative branch; the response never carries the
\* fast path's error.
C10_FastErrorsAbsorbed ==
    \A r \in Requests :
        (PastFastPath(r) /\ FastFailure(h[r].fastGot)) =>
            /\ h[r].fastErr # ""
            /\ h[r].pc \in {"gen_call", "done"}
            /\ Done(r) =>
                 /\ h[r].res.kind # "items"
                 /\ h[r].res.error # h[r].fastErr
                 /\ h[r].res.details # h[r].fastErr
                 /\ FromGenerativeBranch(r)

\* The retries of the inference provider were exhausted and the generative
\* provider's output is the response
C10_Witness ==
    \E r \in Requests :
        /\ Done(r)
        /\ Len(h[r].fastCalls) = NllbAttempts
        /\ h[r].fastErr = "NLLB Model unavailable after retries"
        /\ h[r].res.status = 200 /\ h[r].res.kind = "json"

---------------------------------------------------------------------------
(* C11 *)

\* The answer is a 503 whose body says that the model is loading
ModelLoading(a) == a.net = "ok" /\ a.status = 503 /\ a.jsonOk /\ a.shape = "loading"

\* Every attempt of the budget was answered 503 "model loading"
BudgetExhausted(r) ==
    /\ Len(h[r].fastGots) = NllbAttempts
    /\ \A k \in 1..NllbAttempts : ModelLoading(h[r].fastGots[k])

\* The provider has failed and the handler is in the generative branch
FellBack(r) ==
    /\ h[r].fastErr # ""
    /\ h[r].pc \in {"gen_call", "done"}
    /\ Done(r) => h[r].res.kind # "items" /\ FromGenerativeBranch(r)

\* The inference provider is called at most 3 times, and an exhausted
\* budget is a failure after which the handler is in the generative branch
C11_Budget ==
    \A r \in Requests :
        FastProvider(rev) = "NLLB" =>
            /\ Len(h[r].fastCalls) <= NllbAttempts
            /\ Len(h[r].fastGots) <= Len(h[r].fastCalls)
            /\ (BudgetExhausted(r) /\ h[r].pc # "fast_sleep") =>
                 /\ h[r].fastErr = "NLLB Model unavailable after retries"
                 /\ FellBack(r)

\* A step that makes a further call to the inference provider is the end
\* of the wait that followed a 503 "model loading" answer
C11_FurtherCall ==
    \A r \in Requests :
        (FastProvider(rev) = "NLLB" /\ h[r].fastCalls # <<>>
            /\ Len(h'[r].fastCalls) > Len(h[r].fastCalls)) =>
            /\ Len(h'[r].fastCalls) = Len(h[r].fastCalls) + 1
            /\ h[r].pc = "fast_sleep"
            /\ h[r].wait = WaitTime(h[r].fastGot) /\ h[r].wait > 0
            /\ h'[r].wait = 0
            /\ ModelLoading(h[r].fastGot)
            /\ Len(h[r].fastGots) = Len(h[r].fastCalls)

\* C11: within one request the inference provider is called at most 3
\* times; a further call is made only after a 503 "model loading" answer and
\* after the wait has elapsed; when all 3 attempts are answered 503 the
\* provider fails and the handler goes on to the generative branch.
C11_BoundedRetry == []C11_Budget /\ [][C11_FurtherCall]_vars

\* Three attempts answered 503, the wait over, the generative call made
C11_Witness ==
    \E r \in Requests :
        /\ BudgetExhausted(r)
        /\ h[r].pc = "gen_call"
        /\ Len(h[r].fastCalls) = NllbAttempts
        /\ Len(h[r].genCalls) = 1

---------------------------------------------------------------------------
(* C12 *)

\* C12: the generative provider is called at most twice in a request; a
\* second call happens only if the first call failed with a rate-limit or
\* service-unavailable status; a failure of the first call with any other
\* status causes no retry and is answered 500.
C12_AsStated ==
    \A r \in Requests :
        /\ Len(h[r].genCalls) <= 2
        /\ Len(h[r].genCalls) = 2 =>
             Len(h[r].genErrs) >= 1 /\ RateLimited(h[r].genErrs[1])
        /\ (Len(h[r].genErrs) >= 1 /\ ~RateLimited(h[r].genErrs[1])) =>
             /\ Len(h[r].genCalls) = 1
             /\ Done(r)
             /\ h[r].res.status = 500 /\ h[r].res.kind = "error"

---------------------------------------------------------------------------
(* C13 *)

\* Calls made and not yet answered
FastInFlight(r) == Len(h[r].fastCalls) - Len(h[r].fastGots)
GenInFlight(r) ==
    Len(h[r].genCalls) - Len(h[r].genErrs) - (IF h[r].genGot THEN 1 ELSE 0)

\* The fast path is over: every call answered, no wait pending, and the
\* helper has returned or thrown
FastCompleted(r) ==
    /\ FastInFlight(r) = 0
    /\ h[r].wait = 0 /\ h[r].pc # "fast_sleep"
    /\ \/ h[r].fastErr # ""
       \/ Done(r) /\ h[r].res.kind = "items"

\* At most one call is in flight, and a generative call has been made only
\* once the fast path, if attempted, is over with a failure
C13_OneAtATime ==
    \A r \in Requests :
        /\ FastInFlight(r) \in {0, 1} /\ GenInFlight(r) \in {0, 1}
        /\ FastInFlight(r) + GenInFlight(r) <= 1
        /\ (FastCalled(r) /\ h[r].genCalls # <<>>) =>
             FastCompleted(r) /\ h[r].fastErr # ""

\* A step that calls the generative provider comes after every fast-path
\* answer and wait, and no step calls the fast-path provider once the
\* generative provider has been called
C13_Order ==
    \A r \in Requests :
        /\ (Len(h'[r].genCalls) > Len(h[r].genCalls) /\ FastCalled(r)) =>
             /\ h'[r].fastCalls = h[r].fastCalls
             /\ Len(h'[r].fastGots) = Len(h[r].fastCalls)
             /\ h'[r].wait = 0
             /\ h'[r].fastErr # ""
        /\ h[r].genCalls # <<>> =>
             h'[r].fastCalls = h[r].fastCalls /\ h'[r].fastGots = h[r].fastGots

\* C13: within one request the provider calls are sequential: the
\* generative call begins only when the fast-path call, with all its
\* retries and waits, has completed with success or failure, and the two
\* are never in flight together.
C13_Sequential == []C13_OneAtATime /\ [][C13_Order]_vars

\* A generative call in flight after two answered attempts of the fast path
\* and one wait
C13_Witness ==
    \E r \in Requests :
        /\ Len(h[r].fastCalls) = 2 /\ Len(h[r].fastGots) = 2
        /\ GenInFlight(r) = 1
        /\ h[r].fastErr # ""

---------------------------------------------------------------------------
(* C14 *)

\* The terminal states: a response (RESPONDED) or an error response
\* (ERROR_RESPONDED) has been sent
Terminal(r) == h[r].sent >= 1

\* No request has more than one response, and a request with a response is
\* over
C14_AtMostOne ==
    \A r \in Requests :
        /\ h[r].sent \in {0, 1}
        /\ Terminal(r) <=> Done(r)
        /\ Terminal(r) => h[r].res.status # 0 /\ FastInFlight(r) = 0 /\ GenInFlight(r) = 0
        /\ ~Terminal(r) => h[r].res = NoResponse

\* Nothing happens to a request in a terminal state: no response, no call,
\* no answer awaited
C14_Stays ==
    \A r \in Requests : Terminal(r) => h'[r] = h[r]

\* C14: a request produces at most one response; in a terminal state the
\* handler sends no second response and calls no provider again, whatever
\* errors were raised on the way.
C14_OneResponse == []C14_AtMostOne /\ [][C14_Stays]_vars

\* A request answered once after a failed fast path, a failed primary model
\* and a failed fallback model
C14_Witness ==
    \E r \in Requests :
        /\ Terminal(r) /\ h[r].sent = 1
        /\ h[r].fastErr # ""
        /\ Len(h[r].genErrs) = 2
        /\ h[r].res.error = ProcessingFailed

---------------------------------------------------------------------------
(* C15 *)

\* C15: when every outbound call eventually returns or fails and every
\* wait ends, every received request eventually has its response; neither
\* the retry loop of the fast path nor the model fallback runs forever.
C15_Termination ==
    \A r \in Requests : (h[r].pc = "received") ~> Terminal(r)

\* A request that ended after the longest path: three attempts of the
\* inference provider, then one call of the generative provider
C15_Witness ==
    \E r \in Requests :
        /\ Terminal(r)
        /\ Len(h[r].fastCalls) = NllbAttempts
        /\ h[r].i = NllbAttempts
        /\ Len(h[r].genCalls) = 1

---------------------------------------------------------------------------
(* C16 *)

\* The request carries no input the revision reads
MissingInput(r) ==
    /\ h[r].req.body.image \in {Undefined, ""}
    /\ AcceptsText(rev) => h[r].req.body.text \in {NoText, <<>>}

\* The three causes of a 500: the credential is missing, a call to the
\* generative provider failed, the provider's text did not parse
ConfigurationCause(r) == h[r].res.error = ConfigurationError /\ KeyAbsent
ProviderCause(r) == h[r].genErrs # <<>> /\ GenInFlight(r) = 0 /\ ~h[r].genGot
ParseCause(r) == h[r].res.error = ParseError /\ Unparseable(r)

\* C16: every response has a status in {200, 400, 405, 500}; 400 only for
\* missing input, 405 only for a bad method, 500 only for a configuration,
\* provider or parse error; every response that is not 200 carries an error
\* field.
C16_AsStated ==
    \A r \in Requests :
        Done(r) =>
            /\ h[r].res.status \in {200, 400, 405, 500}
            /\ h[r].res.status = 400 => IsPost(r) /\ MissingInput(r)
            /\ h[r].res.status = 405 => h[r].req.method \notin {"POST", "OPTIONS"}
            /\ h[r].res.status = 500 =>
                 ConfigurationCause(r) \/ ProviderCause(r) \/ ParseCause(r)
            /\ h[r].res.status # 200 => h[r].res.kind = "error" /\ h[r].res.error # ""

---------------------------------------------------------------------------
(* C17 *)

\* A POST request that carries both an image and a text
CarriesBoth(r) ==
    /\ IsPost(r) /\ h[r].req.body.hasBody
    /\ h[r].req.body.image \notin {Undefined, ""}
    /\ h[r].req.body.text \notin {NoText, <<>>}

\* Every call to the generative provider carries the image and no text
ImageSent(r) ==
    \A k \in 1..Len(h[r].genCalls) :
        /\ h[r].genCalls[k].parts.image = h[r].req.body.image
        /\ h[r].genCalls[k].parts.text = NoText

\* Every call to the generative provider carries the text and no image
TextSent(r) ==
    \A k \in 1..Len(h[r].genCalls) :
        /\ h[r].genCalls[k].parts.text = h[r].req.body.text
        /\ h[r].genCalls[k].parts.image = Undefined

\* C17 as stated: a POST request with both an image and a text takes the
\* image branch: the image is sent to the generative provider and the fast
\* text path is not used.
C17_AsStated ==
    \A r \in Requests :
        CarriesBoth(r) => h[r].fastCalls = <<>> /\ ImageSent(r)

\* C17, amended: a POST request with both an image and a text uses one of
\* them only, and the text takes priority wherever the revision reads text:
\* the fast text path is used when it is configured (and the credential
\* check that precedes it passes), every generative call carries the text
\* and not the image.  The revision that reads no text sends the image.
C17_TextPriority ==
    \A r \in Requests :
        CarriesBoth(r) =>
            IF AcceptsText(rev)
            THEN /\ TextSent(r)
                 /\ \A k \in 1..Len(h[r].fastCalls) :
                        h[r].fastCalls[k].text = h[r].req.body.text
                 /\ h[r].pc # "received" =>
                        (FastCalled(r) <=>
                            FastConfigured /\ ~(KeyFirst(rev) /\ KeyAbsent))
                 /\ (h[r].pc # "received" /\ ~FastConfigured
                        /\ ~KeyAbsent) => h[r].genCalls # <<>>
            ELSE h[r].fastCalls = <<>> /\ ImageSent(r)

\* A request with an image and a text whose text went to the generative
\* provider after the fast path failed, the image unused
C17_Witness ==
    \E r \in Requests :
        /\ CarriesBoth(r) /\ Done(r)
        /\ FastCalled(r) /\ h[r].fastErr # ""
        /\ h[r].genCalls # <<>>
        /\ h[r].genCalls[1].parts.image = Undefined
        /\ h[r].res.kind = "json"

---------------------------------------------------------------------------
(* C18 *)

\* The provider answered with a text that is JSON after sanitization
Parseable(r) == h[r].genGot /\ JsonParses(Sanitize(rev, h[r].genRaw))

\* The value has the expected shape: an object with the member items
ExpectedShape(value) == value = <<"m">>

\* C18: whenever the sanitized text of the generative provider parses as
\* JSON the response is 200 with the parsed value as it is, whatever its
\* shape: an object without the expected member is returned, not rejected.
C18_NoSchemaValidation ==
    \A r \in Requests :
        Parseable(r) =>
            /\ Done(r)
            /\ h[r].res.status = 200 /\ h[r].res.kind = "json"
            /\ h[r].res.json = JsonParse(Sanitize(rev, h[r].genRaw))
            /\ h[r].res.error = "" /\ h[r].res.raw = <<>>

\* An object without items, taken out of fences and prose, answered 200
C18_Witness ==
    \E r \in Requests :
        /\ Parseable(r) /\ Done(r)
        /\ Len(h[r].genRaw) > 2
        /\ ~ExpectedShape(h[r].res.json)
        /\ h[r].res.status = 200

---------------------------------------------------------------------------
(* C19 *)

\* The exception that no handler code absorbs: the failure of the last
\* generative call, or the TypeError of reading a body that is not there
Unhandled(r) ==
    \/ h[r].genErrs # <<>> /\ GenInFlight(r) = 0 /\ ~h[r].genGot
    \/ /\ ~h[r].req.body.hasBody /\ h[r].pc # "received"
       /\ ~(KeyFirst(rev) /\ KeyAbsent)

\* The message of that exception
UnhandledMessage(r) ==
    IF h[r].genErrs # <<>> THEN h[r].genErrs[Len(h[r].genErrs)].message
    ELSE "TypeError"

\* C19: an exception raised while a POST request is handled, other than
\* the absorbed failures of the fast path, the retried failure of the
\* primary model and the JSON parse error, is caught by the handler's catch
\* and answered 500 Processing Failed with the exception's message; no
\* exception leaves the handler.
C19_TopLevelCatch ==
    \A r \in Requests :
        /\ h[r].pc \in {"idle", "received", "fast_call", "fast_sleep", "gen_call", "done"}
        /\ (IsPost(r) /\ Unhandled(r)) =>
             /\ Done(r) /\ h[r].sent = 1
             /\ h[r].res.status = 500 /\ h[r].res.kind = "error"
             /\ h[r].res.error = ProcessingFailed
             /\ h[r].res.details = UnhandledMessage(r)

\* The fast path failed and was absorbed, then the generative call failed
\* with a 400 and its message is in the response
C19_Witness ==
    \E r \in Requests :
        /\ IsPost(r) /\ Done(r)
        /\ h[r].fastErr # ""
        /\ Len(h[r].genErrs) = 1 /\ h[r].genErrs[1].status = 400
        /\ h[r].res.details = h[r].genErrs[1].message
        /\ h[r].res.error = ProcessingFailed

---------------------------------------------------------------------------
(* C20 *)

\* The payload was read and holds no translated string
LacksTranslation(a) ==
    /\ a.net = "ok" /\ a.status \in 200..299 /\ a.jsonOk
    /\ a.translated \in {NoText, <<>>}

\* The translation in the item of the response
ItemTranslation(r) ==
    IF h[r].fastCalls[1].source = "zh-TW"
    THEN h[r].res.items[1].thai ELSE h[r].res.items[1].zh

\* C20: the fast path answers 200 with an item only when the provider's
\* payload held a translated string; a relay payload that reports success
\* without a translated text, or an inference payload without
\* translation_text, makes the handler go on to the generative branch.
C20_AsStated ==
    \A r \in Requests :
        /\ (Done(r) /\ h[r].res.kind = "items") =>
             /\ ProviderSucceeded(h[r].fastGot)
             /\ ItemTranslation(r) \notin {NoText, <<>>}
        /\ (PastFastPath(r) /\ LacksTranslation(h[r].fastGot)) => FellBack(r)

---------------------------------------------------------------------------
(* C21 *)

\* The raw text without its fence markers
Unfenced(t) == SelectSeq(t, LAMBDA tok : tok \notin {"F", "FJ"})

HasBraces(t) ==
    (\E i \in 1..Len(t) : t[i] = "{") /\ (\E i \in 1..Len(t) : t[i] = "}")

\* The span from the first "{" to the last "}", both included
BraceSpan(t) == SubSeq(t, IndexOf(t, "{") + 1, LastIndexOf(t, "}") + 1)

\* C21: when the raw text contains a "{" and a "}", the text handed to the
\* JSON parser is the span from the first "{" to the last "}" inclusive, so
\* it starts with "{" and ends with "}", also when the last "}" comes before
\* the first "{"; when either character is missing the text is not sliced.
C21_AsStated ==
    \A r \in Requests :
        h[r].genGot =>
            LET t == Unfenced(h[r].genRaw)
                x == h[r].genText
            IN  IF HasBraces(t)
                THEN /\ x # <<>> /\ x[1] = "{" /\ x[Len(x)] = "}"
                     /\ IndexOf(t, "{") < LastIndexOf(t, "}") => x = BraceSpan(t)
                ELSE x = t

---------------------------------------------------------------------------
(* C22 *)

\* A POST request with an image and no text
ImageOnly(r) ==
    /\ IsPost(r) /\ h[r].req.body.hasBody
    /\ h[r].req.body.image \notin {Undefined, ""}
    /\ h[r].req.body.text \in {NoText, <<>>}

\* The handling of a text in the generative branch, stated without the
\* fast path: no call and 500 Configuration Error when the credential is
\* absent; otherwise a first call to the primary model with the text
\* prompt and no image, and a response made from the provider's outcome
GenerativeTextHandling(r) ==
    IF KeyAbsent
    THEN h[r].genCalls = <<>> /\ Done(r) /\ IsConfigurationError(r)
    ELSE /\ OnceOrWithRetry(h[r].genCalls)
         /\ TextSent(r)
         /\ \A k \in 1..Len(h[r].genCalls) :
                h[r].genCalls[k].parts.prompt \in {"text th->zh", "text zh->th"}
         /\ Done(r) => FromGenerativeBranch(r) /\ h[r].res.kind # "items"

\* The handler is past branch A without an item of the fast path
PastBranchA(r) ==
    /\ h[r].pc \in {"gen_call", "done"}
    /\ ~(Done(r) /\ h[r].res.kind = "items")

\* C22: the fast-path provider is called only for a request with text
\* when it is configured; an image-only request never calls it; a text
\* request without a configured fast-path provider is handled in the
\* generative branch exactly as a text request whose fast path failed.
C22_FastPathGuard ==
    \A r \in Requests :
        /\ FastCalled(r) => IsPost(r) /\ HasText(r) /\ FastConfigured
        /\ ImageOnly(r) => h[r].fastCalls = <<>>
        /\ (IsPost(r) /\ HasText(r) /\ AcceptsText(rev) /\ PastBranchA(r)) =>
             /\ ~FastConfigured => h[r].fastCalls = <<>> /\ h[r].fastErr = ""
             /\ FastCalled(r) => h[r].fastErr # ""
             /\ GenerativeTextHandling(r)

\* A text request with no fast-path provider configured, answered with the
\* generative provider's output after one call
C22_Witness ==
    \E r \in Requests :
        /\ IsPost(r) /\ HasText(r) /\ Done(r)
        /\ ~FastConfigured /\ h[r].fastCalls = <<>>
        /\ Len(h[r].genCalls) = 1
        /\ h[r].genCalls[1].parts.text = h[r].req.body.text
        /\ h[r].res.kind = "json"

---------------------------------------------------------------------------
(* C23 *)

\* The request says that its text is Chinese
FromChinese(r) == h[r].req.body.sourceLang = "zh"

\* C23: on the relay fast path, a request with sourceLang 'zh' calls the
\* relay with source zh-TW and target th and its item has zh = the input
\* text, thai = the translation and containsShellfish false whatever the
\* text; any other request calls the relay with source th and target zh-TW
\* and its item has thai = the input text and zh = the translation.
C23_AsStated ==
    \A r \in Requests :
        FastProvider(rev) = "GAS" =>
            /\ \A k \in 1..Len(h[r].fastCalls) :
                   /\ h[r].fastCalls[k].text = h[r].req.body.text
                   /\ h[r].fastCalls[k].source = IF FromChinese(r) THEN "zh-TW" ELSE "th"
                   /\ h[r].fastCalls[k].target = IF FromChinese(r) THEN "th" ELSE "zh-TW"
            /\ (Done(r) /\ h[r].res.kind = "items") =>
                   IF FromChinese(r)
                   THEN /\ h[r].res.items[1].zh = h[r].req.body.text
                        /\ h[r].res.items[1].thai = h[r].fastGot.translated
                        /\ h[r].res.items[1].containsShellfish = FALSE
                   ELSE /\ h[r].res.items[1].thai = h[r].req.body.text
                        /\ h[r].res.items[1].zh = h[r].fastGot.translated

---------------------------------------------------------------------------
(* C24 *)

\* The k-th call to the generative provider is made from the request's own
\* body and the configuration: the text prompt for its own text, or the
\* image prompt for its own mode with its own image; the primary model
\* first, the fallback model with the retry flag after its own failure
OwnGenCall(r, k) ==
    LET c == h[r].genCalls[k]
        b == h[r].req.body
    IN  /\ IF AcceptsText(rev) /\ b.text \notin {NoText, <<>>}
           THEN /\ c.parts.text = b.text /\ c.parts.image = Undefined
                /\ c.parts.prompt =
                      IF Directional(rev) /\ b.sourceLang = "zh"
                      THEN "text zh->th" ELSE "text th->zh"
           ELSE /\ c.parts.text = NoText /\ c.parts.image = b.image
                /\ c.parts.prompt =
                      IF b.mode = PlainMode(rev) THEN "image plain" ELSE "image menu"
        /\ c.model = IF k = 1 THEN PRIMARY_MODEL ELSE FALLBACK_MODEL
        /\ c.retrying = (k > 1)
        /\ k > 1 => Len(h[r].genErrs) >= k - 1

\* The k-th call to the fast-path provider carries the request's own text
\* and direction
OwnFastCall(r, k) ==
    LET c == h[r].fastCalls[k]
        b == h[r].req.body
    IN  /\ c.text = b.text
        /\ Directional(rev) =>
              c.source = IF b.sourceLang = "zh" THEN "zh-TW" ELSE "th"
        /\ k > 1 => Len(h[r].fastGots) >= k - 1

\* The response is made from the request's own text and the answers to its
\* own calls
OwnResponse(r) ==
    LET b == h[r].req.body
        res == h[r].res
    IN  CASE res.kind = "items" ->
               /\ {res.items[1].thai, res.items[1].zh} =
                     {b.text, h[r].fastGot.translated}
               /\ h[r].fastGot = h[r].fastGots[Len(h[r].fastGots)]
          [] res.kind = "json" ->
               h[r].genGot /\ res.json = JsonParse(Sanitize(rev, h[r].genRaw))
          [] res.kind = "error" /\ res.error = ParseError ->
               /\ h[r].genGot
               /\ res.raw = RawField(rev, h[r].genRaw, Sanitize(rev, h[r].genRaw))
          [] res.kind = "error" /\ res.error = ProcessingFailed ->
               /\ h[r].genErrs # <<>>
               /\ res.details = h[r].genErrs[Len(h[r].genErrs)].message
          [] res.kind = "error" /\ res.status = 400 ->
               MissingInput(r) /\ NoOutboundCall(r)
          [] OTHER -> FALSE

\* Two requests with the same body, the same answers and the same timers
SameInputs(r1, r2) ==
    /\ h[r1].req = h[r2].req
    /\ (h[r1].pc = "received") = (h[r2].pc = "received")
    /\ h[r1].fastGots = h[r2].fastGots /\ h[r1].i = h[r2].i
    /\ h[r1].genErrs = h[r2].genErrs
    /\ h[r1].genGot = h[r2].genGot /\ h[r1].genRaw = h[r2].genRaw

\* Every call and every response of a request is made from its own data,
\* and two requests with the same data are in the same state
C24_OwnData ==
    /\ \A r \in Requests :
          /\ \A k \in 1..Len(h[r].genCalls) : OwnGenCall(r, k)
          /\ \A k \in 1..Len(h[r].fastCalls) : OwnFastCall(r, k)
          /\ Done(r) => OwnResponse(r)
    /\ \A r1, r2 \in Requests : SameInputs(r1, r2) => h[r1] = h[r2]

\* A step is a step of one request; it leaves the other request and the
\* configuration as they are
C24_OneRequest ==
    /\ rev' = rev /\ env' = env
    /\ \E r \in Requests : \A o \in Requests \ {r} : h'[o] = h[o]
    /\ \A r \in Requests : h'[r].req = h[r].req

\* C24: two requests handled concurrently, in any interleaving, do not
\* affect each other: the payload of every provider call (prompt, image,
\* model, retry flag) and the response of a request depend only on its own
\* body, the configuration and the answers to its own calls.
C24_Isolation == []C24_OwnData /\ [][C24_OneRequest]_vars

\* Two different requests under way together: one waits in the retry loop
\* of the fast path while the other has its second generative call in
\* flight
C24_Witness ==
    /\ h["r1"].req # h["r2"].req
    /\ h["r1"].pc = "fast_sleep"
    /\ h["r2"].pc = "gen_call" /\ Len(h["r2"].genCalls) = 1
    /\ h["r2"].genCalls[1].parts.image = h["r2"].req.body.image
    /\ h["r2"].req.body.image # Undefined

====
